---- MODULE Spec2Model ----
(***************************************************************************)
(* Model of the stock-data ETL pipeline in main.py (extract_data,          *)
(* transform_data, feature_engineer, main) and of the dashboard's          *)
(* load_data in app.py, which reads the pickle the pipeline writes.        *)
(*                                                                         *)
(* A DataFrame is a sequence of rows; a row is a function from column      *)
(* name to cell.  A float cell is NaN (the empty tuple) or an exact        *)
(* rational <<numerator, denominator>>; a raw cell is the string the API   *)
(* returned.  A date key of the API is DateKey(n), parsed to day number n. *)
(***************************************************************************)
EXTENDS Integers, Sequences, FiniteSets, TLC

VARIABLES
    api_key,    \* API_KEY as read from the environment
    pc,         \* position of main()
    i,          \* number of symbols the loop of extract_data has processed
    all_data,   \* extract_data's list of per-symbol frames
    df,         \* the frame main holds: raw_df, transformed_df, final_df
    calls,      \* symbols an HTTP call was issued for, in order
    failed,     \* symbols whose call failed
    got,        \* payload received for each symbol whose call succeeded
    sinceCall,  \* time elapsed since the latest HTTP call was issued
    lastGap,    \* time between the two latest HTTP calls, NoGap before
    file,       \* content of processed_stock_data.pkl, NoFile if absent
    wpos,       \* how much of the pickle stream to_pickle has written
    seen,       \* what load_data of the dashboard observed
    log         \* the latest message extract_data or main printed

vars == <<api_key, pc, i, all_data, df, calls, failed, got, sinceCall,
          lastGap, file, wpos, seen, log>>

-----------------------------------------------------------------------------
(* Configuration *)

SYMBOLS == <<"AAPL", "GOOGL", "MSFT", "AMZN">>

\* time.sleep(12)
SleepSeconds == 12

MA50Window == 50
MA200Window == 200
VolatilityWindow == 30

\* Bounds of the model
MaxRows == 2        \* observations in a payload of the pipeline runs
MaxLatency == 1     \* duration of one HTTP call
BlockLen == 4       \* elements of the pickle stream flushed by one write
MaxObs == 201       \* observations of the long series of the feature runs
ShortObs == 3       \* observations of the short series of the feature runs

\* Order of the symbol strings, as sort_values compares them
SymRank(s) ==
    CASE s = "AAPL" -> 1 [] s = "AMZN" -> 2 [] s = "GOOGL" -> 3 [] s = "MSFT" -> 4

Syms == {SYMBOLS[k] : k \in 1..Len(SYMBOLS)}

-----------------------------------------------------------------------------
(* Cells *)

\* A sequence written as a function, evaluated once into its tuple
Seq1(f) == f \o <<>>

NaN == <<>>
Num(n) == <<n, 1>>
IsNull(x) == x = NaN
\* equality of two rationals
SameNum(a, b) == a[1] * b[2] = b[1] * a[2]

DateKey(n) == [iso |-> n]
\* pd.to_datetime on the index labels
ToDatetime(k) == k.iso

\* The decimal strings of the payloads and what float() makes of them
PriceStrs == <<"100", "102", "99", "105", "101">>
BadStr == "n/a"
ParseTable ==
    "100" :> 100 @@ "102" :> 102 @@ "99" :> 99 @@ "105" :> 105 @@
    "101" :> 101 @@ "1000" :> 1000

\* Faulty variant: an unparseable string is filled with 0
ToNumericMissing(s) == IF s \in DOMAIN ParseTable THEN Num(ParseTable[s]) ELSE Num(0)
\* pd.to_numeric(errors='coerce') on one cell
ToNumeric(s) == IF s \in DOMAIN ParseTable THEN Num(ParseTable[s]) ELSE NaN

-----------------------------------------------------------------------------
(* Payloads and frames *)

RawCols == {"1. open", "2. high", "3. low", "4. close", "5. volume"}
NumericCols == {"open", "high", "low", "close", "volume"}

PriceStr(k) == PriceStrs[(k % Len(PriceStrs)) + 1]

\* One entry of "Time Series (Daily)": the fields of day d; column bad, if
\* any, holds a string that is no number.
Fields(seed, d, bad) ==
    [c \in RawCols |->
        IF c = bad THEN BadStr
        ELSE IF c = "5. volume" THEN "1000"
        ELSE PriceStr(seed + d - 1)]

\* A "Time Series (Daily)" object of n days, newest first as the API sends
\* it (oldest first if asc); day badDay has an unparseable column badCol.
TimeSeries(seed, n, badDay, badCol, asc) ==
    [k \in 1..n |->
        LET d == IF asc THEN k ELSE n + 1 - k
        IN  <<DateKey(d), Fields(seed, d, IF d = badDay THEN badCol ELSE "")>>]

\* pd.DataFrame.from_dict(time_series, orient='index'); df['symbol'] = symbol
FromDict(ts, symbol) ==
    Seq1([k \in 1..Len(ts) |->
            ("index" :> ts[k][1]) @@ ts[k][2] @@ ("symbol" :> symbol)])

RECURSIVE Concat(_)
\* pd.concat(all_data)
Concat(frames) ==
    IF frames = <<>> THEN <<>> ELSE Head(frames) \o Concat(Tail(frames))

\* df.empty
Empty(frame) == Len(frame) = 0

-----------------------------------------------------------------------------
(* transform_data *)

\* rename_map, after reset_index has made the index the column 'index'
RenameCol(c) ==
    CASE c = "index" -> "date"
      [] c = "1. open" -> "open"
      [] c = "2. high" -> "high"
      [] c = "3. low" -> "low"
      [] c = "4. close" -> "close"
      [] c = "5. volume" -> "volume"
      [] OTHER -> c

\* One row through to_datetime, reset_index, rename and to_numeric
TransformRow(r) ==
    LET dated == [r EXCEPT !["index"] = ToDatetime(@)]
        renamed == [c \in {RenameCol(k) : k \in DOMAIN dated} |->
                        dated[CHOOSE k \in DOMAIN dated : RenameCol(k) = c]]
    IN  [c \in DOMAIN renamed |->
            IF c \in NumericCols THEN ToNumeric(renamed[c]) ELSE renamed[c]]

Transform(frame) ==
    IF Empty(frame) THEN frame
    ELSE Seq1([k \in 1..Len(frame) |-> TransformRow(frame[k])])

-----------------------------------------------------------------------------
(* feature_engineer *)

\* Row order of sort_values(by=['symbol', 'date'])
Less(a, b) ==
    \/ SymRank(a["symbol"]) < SymRank(b["symbol"])
    \/ a["symbol"] = b["symbol"] /\ a["date"] < b["date"]

\* df.sort_values(by=['symbol', 'date'], inplace=True)
SortValues(frame) == SortSeq(frame, Less)

RECURSIVE PrefixSums(_)
\* The running sums of a sequence of integers (cumsum)
PrefixSums(x) ==
    IF Len(x) <= 1 THEN x
    ELSE LET mid == Len(x) \div 2
             l == PrefixSums(SubSeq(x, 1, mid))
             r == PrefixSums(SubSeq(x, mid + 1, Len(x)))
             last == l[mid]
         IN  l \o [k \in 1..Len(r) |-> last + r[k]]

\* For each row, its position within the rows of its own symbol
GroupPos(frame) ==
    LET count == Seq1([j \in 1..Len(SYMBOLS) |->
                    PrefixSums([k \in 1..Len(frame) |->
                                    IF frame[k]["symbol"] = SYMBOLS[j] THEN 1 ELSE 0])])
        j(s) == CHOOSE n \in 1..Len(SYMBOLS) : SYMBOLS[n] = s
    IN  Seq1([k \in 1..Len(frame) |-> count[j(frame[k]["symbol"])][k]])

\* The column col of the rows of symbol g, in frame order
GroupSeries(frame, col, g) ==
    LET rows == SelectSeq(frame, LAMBDA r : r["symbol"] = g)
    IN  Seq1([k \in 1..Len(rows) |-> rows[k][col]])

RECURSIVE FFill(_)
\* Series.ffill(): each NaN takes the latest value before it, if any
FFill(x) ==
    IF Len(x) <= 1 THEN x
    ELSE LET mid == Len(x) \div 2
             l == FFill(SubSeq(x, 1, mid))
             r == FFill(SubSeq(x, mid + 1, Len(x)))
             last == l[mid]
         IN  l \o [k \in 1..Len(r) |-> IF IsNull(r[k]) THEN last ELSE r[k]]

\* Series.pct_change(): filled / filled.shift(1) - 1, where filled is the
\* series forward-filled (pandas before 3.0, fill_method='pad') or the
\* series itself (pandas 3.0 on, fill_method=None)
PctChange(x, pad) ==
    LET filled == IF pad THEN FFill(x) ELSE x
    IN  Seq1([k \in 1..Len(x) |->
            IF k = 1 \/ IsNull(filled[k]) \/ IsNull(filled[IF k = 1 THEN 1 ELSE k - 1])
            THEN NaN
            ELSE <<filled[k][1] - filled[k - 1][1], filled[k - 1][1]>>])

\* The standard deviation is kept symbolic: the sample it is taken of
Std(w) == <<"std", w>>

\* How many of x[1..k] are not NaN, and their sum, for every k
CountTo(x) == PrefixSums([k \in 1..Len(x) |-> IF IsNull(x[k]) THEN 0 ELSE 1])
SumTo(x) == PrefixSums([k \in 1..Len(x) |-> IF IsNull(x[k]) THEN 0 ELSE x[k][1]])

\* The window of W ending at k holds x[k-W+1..k]; At(p, k) is p[k], 0 before
At(p, k) == IF k < 1 THEN 0 ELSE p[k]

Rolling(x, W, minp) ==
    LET cnt == CountTo(x)
        sum == SumTo(x)
    IN  Seq1([k \in 1..Len(x) |->
            LET nobs == cnt[k] - At(cnt, k - W)
            IN  IF nobs >= minp THEN <<sum[k] - At(sum, k - W), nobs>> ELSE NaN])

\* Faulty variant: min_periods=1, a mean of whatever the window holds
RollingMeanPartial(x, W) == Rolling(x, W, 1)

\* x.rolling(window=W).mean(): min_periods defaults to the window, so the
\* mean is NaN unless the window holds W non-null values
RollingMean(x, W) == Rolling(x, W, W)

RollingSample(x, W, minp) ==
    LET cnt == CountTo(x)
    IN  Seq1([k \in 1..Len(x) |->
            IF cnt[k] - At(cnt, k - W) >= minp
            THEN Std(SelectSeq(SubSeq(x, IF k > W THEN k - W + 1 ELSE 1, k),
                               LAMBDA v : ~IsNull(v)))
            ELSE NaN])

\* Faulty variant: the window is taken as full one observation early
RollingStdShortWindow(x, W) == RollingSample(x, W, W - 1)

\* x.rolling(window=W).std(), min_periods = W as for the mean
RollingStd(x, W) == RollingSample(x, W, W)

\* The function a groupby applies to one symbol's series: pct_change, or
\* the lambda of a transform
SeriesFn(fn, x, arg) ==
    CASE fn = "pct_change" -> PctChange(x, arg)
      [] fn = "rolling mean" -> RollingMean(x, arg)
      [] fn = "rolling std" -> RollingStd(x, arg)

RECURSIVE GroupApply(_, _, _, _, _, _, _)
GroupApply(frame, col, fn, arg, pos, gs, out) ==
    IF gs = <<>> THEN out
    ELSE LET g == Head(gs)
             res == SeriesFn(fn, GroupSeries(frame, col, g), arg)
         IN  GroupApply(frame, col, fn, arg, pos, Tail(gs),
                Seq1([k \in 1..Len(frame) |->
                    IF frame[k]["symbol"] = g THEN res[pos[k]] ELSE out[k]]))

\* df.groupby('symbol')[col].transform(fn), and .pct_change() likewise: fn
\* on each symbol's own series, the results put back at the rows' places
GroupTransform(frame, col, fn, arg) ==
    GroupApply(frame, col, fn, arg, GroupPos(frame), SYMBOLS,
               Seq1([k \in 1..Len(frame) |-> NaN]))

\* Faulty variant: the MA200 column is never added
FeatureEngineerNoMA200(frame, pad) ==
    IF Empty(frame) THEN frame
    ELSE LET s == SortValues(frame)
             dr == GroupTransform(s, "close", "pct_change", pad)
             ma50 == GroupTransform(s, "close", "rolling mean", MA50Window)
             withDr == Seq1([k \in 1..Len(s) |-> s[k] @@ ("daily_return" :> dr[k])])
             vol == GroupTransform(withDr, "daily_return", "rolling std",
                                   VolatilityWindow)
         IN  Seq1([k \in 1..Len(s) |->
                withDr[k] @@ ("MA50" :> ma50[k]) @@ ("volatility" :> vol[k])])

\* feature_engineer; pad is the fill_method the installed pandas applies in
\* pct_change
FeatureEngineer(frame, pad) ==
    IF Empty(frame) THEN frame
    ELSE LET s == SortValues(frame)
             dr == GroupTransform(s, "close", "pct_change", pad)
             ma50 == GroupTransform(s, "close", "rolling mean", MA50Window)
             ma200 == GroupTransform(s, "close", "rolling mean", MA200Window)
             withDr == Seq1([k \in 1..Len(s) |-> s[k] @@ ("daily_return" :> dr[k])])
             vol == GroupTransform(withDr, "daily_return", "rolling std",
                                   VolatilityWindow)
         IN  Seq1([k \in 1..Len(s) |->
                withDr[k] @@ ("MA50" :> ma50[k]) @@ ("MA200" :> ma200[k])
                          @@ ("volatility" :> vol[k])])

-----------------------------------------------------------------------------
(* The artifact: to_pickle and read_pickle *)

Op(name, row) == [op |-> name, row |-> row]

\* The pickle stream of a frame: a header, the rows, the STOP opcode
Pickle(frame) ==
    <<Op("PROTO", <<>>)>> \o [k \in 1..Len(frame) |-> Op("ROW", frame[k])]
                          \o <<Op("STOP", <<>>)>>

NoFile == [exists |-> FALSE, data |-> <<>>]

\* df.set_index("date", inplace=True)
SetIndex(frame) ==
    [k \in 1..Len(frame) |->
        LET r == frame[k]
        IN  [c \in (DOMAIN r \ {"date"}) \cup {"index"} |->
                IF c = "index" THEN r["date"] ELSE r[c]]]

\* A stream read_pickle can load: it ends with STOP
Complete(data) == data # <<>> /\ data[Len(data)].op = "STOP"

\* pd.read_pickle of a complete stream
ReadPickle(data) == [k \in 1..Len(data) - 2 |-> data[k + 1].row]

\* load_data on the file as it is now
LoadData(f) ==
    IF ~f.exists THEN [status |-> "FileNotFoundError", frame |-> <<>>]
    ELSE IF Complete(f.data)
    THEN [status |-> "loaded", frame |-> SetIndex(ReadPickle(f.data))]
    ELSE [status |-> "Error loading data", frame |-> <<>>]

\* The artifact an earlier run left: one observation of the first symbol
PriorFrame ==
    FeatureEngineer(Transform(FromDict(TimeSeries(0, 1, 0, "", FALSE), SYMBOLS[1])), TRUE)

PriorFile == [exists |-> TRUE, data |-> Pickle(PriorFrame)]

-----------------------------------------------------------------------------
(* main and extract_data *)

Unset == "<unset>"
Falsy(k) == k = Unset \/ k = ""
NoGap == 0 - 1
NotLoaded == [status |-> "not loaded", frame |-> <<>>]

Init ==
    /\ api_key \in {Unset, "", "KEY"}
    /\ pc = "start"
    /\ i = 0
    /\ all_data = <<>>
    /\ df = <<>>
    /\ calls = <<>>
    /\ failed = {}
    /\ got = <<>>
    /\ sinceCall = 0
    /\ lastGap = NoGap
    /\ file \in {NoFile, PriorFile}
    /\ wpos = 0
    /\ seen = NotLoaded
    /\ log = ""

\* Faulty variant: the credential check does not raise
MainNoKeyProceeds ==
    /\ pc = "start"
    /\ Falsy(api_key)
    /\ pc' = "extract"
    /\ log' = log
    /\ UNCHANGED <<api_key, i, all_data, df, calls, failed, got, sinceCall,
                   lastGap, file, wpos, seen>>

\* main: if not API_KEY: raise ValueError
MainNoKey ==
    /\ pc = "start"
    /\ Falsy(api_key)
    /\ pc' = "ValueError"
    /\ log' = "API_KEY environment variable not set!"
    /\ UNCHANGED <<api_key, i, all_data, df, calls, failed, got, sinceCall,
                   lastGap, file, wpos, seen>>

\* main: raw_df = extract_data(SYMBOLS, API_KEY), up to the loop
MainExtract ==
    /\ pc = "start"
    /\ ~Falsy(api_key)
    /\ pc' = "extract"
    /\ UNCHANGED <<api_key, i, all_data, df, calls, failed, got, sinceCall,
                   lastGap, file, wpos, seen, log>>

\* requests.get is issued for the next symbol
Issue(symbol) ==
    /\ calls' = Append(calls, symbol)
    /\ lastGap' = IF calls = <<>> THEN NoGap ELSE sinceCall

\* Faulty variant: the failure is handled outside the loop, which ends
CaughtBreaksLoop(symbol, latency, message) ==
    /\ Issue(symbol)
    /\ log' = message
    /\ failed' = failed \cup {symbol}
    /\ sinceCall' = latency
    /\ i' = Len(SYMBOLS)
    /\ UNCHANGED <<api_key, pc, all_data, df, got, file, wpos, seen>>

\* One iteration that ends in an except clause, or in the continue of the
\* missing-key branch: the symbol is skipped and nothing sleeps
Caught(symbol, latency, message) ==
    /\ Issue(symbol)
    /\ log' = message
    /\ failed' = failed \cup {symbol}
    /\ sinceCall' = latency
    /\ i' = i + 1
    /\ UNCHANGED <<api_key, pc, all_data, df, got, file, wpos, seen>>

InLoop == pc = "extract" /\ i < Len(SYMBOLS)

\* requests.get raises (no network, timeout)
FetchNetworkError ==
    InLoop /\ \E latency \in 0..MaxLatency :
                Caught(SYMBOLS[i + 1], latency, "HTTP Request failed")

\* r.raise_for_status() raises on a non-2xx status
FetchHttpError ==
    InLoop /\ \E latency \in 0..MaxLatency :
                Caught(SYMBOLS[i + 1], latency, "HTTP Request failed: status")

\* r.json() raises, or the body is no object with the expected shape
FetchMalformedBody ==
    InLoop /\ \E latency \in 0..MaxLatency :
                Caught(SYMBOLS[i + 1], latency, "An unexpected error occurred")

\* "Time Series (Daily)" not in data: the quota note, then continue
FetchNote ==
    InLoop /\ \E latency \in 0..MaxLatency :
                Caught(SYMBOLS[i + 1], latency, "API Error or note")

\* The call succeeds: the frame is appended, then time.sleep(12)
FetchOk ==
    /\ InLoop
    /\ \E latency \in 0..MaxLatency, n \in 0..MaxRows :
        LET symbol == SYMBOLS[i + 1]
            ts == TimeSeries(SymRank(symbol), n, 0, "", FALSE)
        IN  /\ Issue(symbol)
            /\ all_data' = Append(all_data, FromDict(ts, symbol))
            /\ got' = got @@ (symbol :> ts)
            /\ sinceCall' = latency + SleepSeconds
    /\ i' = i + 1
    /\ log' = "Fetching data"
    /\ UNCHANGED <<api_key, pc, df, failed, file, wpos, seen>>

\* if not all_data: return pd.DataFrame(); return pd.concat(all_data)
ExtractResult == IF all_data = <<>> THEN <<>> ELSE Concat(all_data)

ExtractReturn ==
    /\ pc = "extract"
    /\ i = Len(SYMBOLS)
    /\ df' = ExtractResult
    /\ pc' = "extracted"
    /\ UNCHANGED <<api_key, i, all_data, calls, failed, got, sinceCall,
                   lastGap, file, wpos, seen, log>>

\* Faulty variant: the empty frame goes on to to_pickle
MainNoDataWrites ==
    /\ pc = "extracted"
    /\ Empty(df)
    /\ pc' = "featured"
    /\ log' = log
    /\ UNCHANGED <<api_key, i, all_data, df, calls, failed, got, sinceCall,
                   lastGap, file, wpos, seen>>

\* main: raw_df.empty, the else branch
MainNoData ==
    /\ pc = "extracted"
    /\ Empty(df)
    /\ pc' = "done: no data"
    /\ log' = "Pipeline finished: No data was fetched from the API."
    /\ UNCHANGED <<api_key, i, all_data, df, calls, failed, got, sinceCall,
                   lastGap, file, wpos, seen>>

\* main: transformed_df = transform_data(raw_df)
MainTransform ==
    /\ pc = "extracted"
    /\ ~Empty(df)
    /\ df' = Transform(df)
    /\ pc' = "transformed"
    /\ UNCHANGED <<api_key, i, all_data, calls, failed, got, sinceCall,
                   lastGap, file, wpos, seen, log>>

\* main: final_df = feature_engineer(transformed_df)
MainFeature ==
    /\ pc = "transformed"
    /\ \E pad \in BOOLEAN : df' = FeatureEngineer(df, pad)
    /\ pc' = "featured"
    /\ UNCHANGED <<api_key, i, all_data, calls, failed, got, sinceCall,
                   lastGap, file, wpos, seen, log>>

\* final_df.to_pickle(path): open(path, "wb") creates or truncates the file
PickleOpen ==
    /\ pc = "featured"
    /\ file' = [exists |-> TRUE, data |-> <<>>]
    /\ wpos' = 0
    /\ pc' = "writing"
    /\ UNCHANGED <<api_key, i, all_data, df, calls, failed, got, sinceCall,
                   lastGap, seen, log>>

\* one block of the stream reaches the file
PickleWrite ==
    /\ pc = "writing"
    /\ wpos < Len(Pickle(df))
    /\ LET stream == Pickle(df)
           upto == IF wpos + BlockLen < Len(stream) THEN wpos + BlockLen
                   ELSE Len(stream)
       IN  /\ file' = [file EXCEPT !.data = @ \o SubSeq(stream, wpos + 1, upto)]
           /\ wpos' = upto
    /\ UNCHANGED <<api_key, pc, i, all_data, df, calls, failed, got, sinceCall,
                   lastGap, seen, log>>

\* the write raises (disk full, I/O error): main ends with the exception
PickleFail ==
    /\ pc = "writing"
    /\ wpos < Len(Pickle(df))
    /\ pc' = "OSError"
    /\ UNCHANGED <<api_key, i, all_data, df, calls, failed, got, sinceCall,
                   lastGap, file, wpos, seen, log>>

\* the stream is complete and the file is closed
PickleClose ==
    /\ pc = "writing"
    /\ wpos = Len(Pickle(df))
    /\ pc' = "done: saved"
    /\ log' = "Successfully processed and saved data"
    /\ UNCHANGED <<api_key, i, all_data, df, calls, failed, got, sinceCall,
                   lastGap, file, wpos, seen>>

\* The dashboard calls load_data; st.cache_data keeps a frame once loaded
DashboardLoad ==
    /\ seen.status # "loaded"
    /\ seen' = LoadData(file)
    /\ UNCHANGED <<api_key, pc, i, all_data, df, calls, failed, got, sinceCall,
                   lastGap, file, wpos, log>>

Next ==
    \/ MainNoKey
    \/ MainExtract
    \/ FetchNetworkError
    \/ FetchHttpError
    \/ FetchMalformedBody
    \/ FetchNote
    \/ FetchOk
    \/ ExtractReturn
    \/ MainNoData
    \/ MainTransform
    \/ MainFeature
    \/ PickleOpen
    \/ PickleWrite
    \/ PickleFail
    \/ PickleClose
    \/ DashboardLoad

Spec == Init /\ [][Next]_vars

-----------------------------------------------------------------------------
(* transform_data and feature_engineer on bounded inputs: the state main   *)
(* is in when extract_data has returned the frames of two symbols, the     *)
(* calls of the other two having failed.                                   *)

\* The payloads of the second and the fourth symbol
FeaturePayloads ==
    LET a == SymRank(SYMBOLS[2])
        b == SymRank(SYMBOLS[4])
    IN  \* a long series with at most one unparseable close
        {<<TimeSeries(a, MaxObs, x[1], "4. close", x[2]),
           TimeSeries(b, ShortObs, 0, "", FALSE)>> : x \in (0..MaxObs) \X BOOLEAN}
        \cup
        \* short series, any one field unparseable, either order
        {<<TimeSeries(a, x[1], x[2], x[3], x[4]), TimeSeries(b, x[5], 0, "", FALSE)>> :
            x \in {y \in (0..ShortObs) \X (0..ShortObs) \X RawCols \X BOOLEAN
                          \X (0..ShortObs) : y[2] <= y[1]}}

InitFeatures ==
    /\ api_key = "KEY"
    /\ pc = "extracted"
    /\ i = Len(SYMBOLS)
    /\ calls = SYMBOLS
    /\ failed = {SYMBOLS[1], SYMBOLS[3]}
    /\ \E ps \in FeaturePayloads :
        /\ got = (SYMBOLS[2] :> ps[1]) @@ (SYMBOLS[4] :> ps[2])
        /\ all_data = <<FromDict(ps[1], SYMBOLS[2]), FromDict(ps[2], SYMBOLS[4])>>
    /\ df = ExtractResult
    /\ sinceCall = SleepSeconds
    /\ lastGap = 0
    /\ file = NoFile
    /\ wpos = 0
    /\ seen = NotLoaded
    /\ log = "Fetching data"

NextFeatures ==
    \/ MainNoData
    \/ MainTransform
    \/ MainFeature

SpecFeatures == InitFeatures /\ [][NextFeatures]_vars

-----------------------------------------------------------------------------
(* Properties of the pipeline runs (Spec) *)

\* The rows of a frame that carry symbol s, in frame order
RowsOf(frame, s) == SelectSeq(frame, LAMBDA r : r["symbol"] = s)

HasDataset == pc \in {"featured", "writing", "done: saved", "OSError"}
AfterLoop == pc \notin {"start", "ValueError", "extract"}

\* The Dataset a run would hold had symbol s been the only symbol fetched
Alone(s) == FeatureEngineer(Transform(FromDict(got[s], s)), TRUE)

\* C1: whichever calls fail, the loop issues the call for every symbol in
\* order and reaches its end; the Dataset holds no row of a failed symbol
\* and, for every other symbol, exactly the rows that symbol yields alone.
C1_FaultIsolation ==
    /\ pc = "extract" => calls = SubSeq(SYMBOLS, 1, i)
    /\ AfterLoop =>
        /\ calls = SYMBOLS
        /\ DOMAIN got = Syms \ failed
    /\ HasDataset =>
        \A s \in Syms :
            RowsOf(df, s) = IF s \in failed THEN <<>> ELSE Alone(s)

\* The scenario of the spec: the second of four calls fails, the run saves
\* the rows of the other three.
C1_Witness ==
    /\ pc = "done: saved"
    /\ failed = {SYMBOLS[2]}
    /\ \A s \in Syms \ failed : Len(RowsOf(df, s)) = MaxRows

\* C2: at least 12 time units pass between any two successive HTTP calls,
\* whatever the outcome of the earlier one.
C2_MinDelay == lastGap = NoGap \/ lastGap >= SleepSeconds

\* C3: a reader never loads a half-written artifact, and a run that ends
\* (saved, nothing fetched, or with an error) leaves a file that is absent
\* or complete.
C3_AtomicReplace ==
    /\ seen.status # "Error loading data"
    /\ pc \in {"done: saved", "done: no data", "ValueError", "OSError"} =>
            (file.exists => Complete(file.data))

\* C4: with the credential absent or empty, main raises before any call is
\* issued and the artifact stays as it was.
C4_FailFast ==
    Falsy(api_key) =>
        /\ pc \in {"start", "ValueError"}
        /\ calls = <<>>
        /\ all_data = <<>>
        /\ file \in {NoFile, PriorFile}
        /\ wpos = 0

C4_Witness == pc = "ValueError" /\ api_key = "" /\ file = PriorFile

\* C5: when every call fails, extract_data returns the empty frame and main
\* ends in its "no data" branch: nothing raised, no write, the artifact as
\* it was.
C5_TotalFailureNoOp ==
    (failed = Syms /\ AfterLoop) =>
        /\ Empty(df)
        /\ pc \in {"extracted", "done: no data"}
        /\ file \in {NoFile, PriorFile}
        /\ wpos = 0

C5_Witness == pc = "done: no data" /\ failed = Syms /\ file = PriorFile

SpecColumns ==
    {"symbol", "date", "open", "high", "low", "close", "volume",
     "daily_return", "MA50", "MA200", "volatility30"}

CodeColumns ==
    {"symbol", "date", "open", "high", "low", "close", "volume",
     "daily_return", "MA50", "MA200", "volatility"}

\* One row for every observation received, no two for one (symbol, date)
OneRowPerKey(rows) ==
    /\ \A s \in Syms \ failed :
        {r["date"] : r \in {rows[k] : k \in {j \in 1..Len(rows) : rows[j]["symbol"] = s}}}
            = {got[s][k][1].iso : k \in 1..Len(got[s])}
    /\ \A j, k \in 1..Len(rows) :
        (rows[j]["symbol"] = rows[k]["symbol"] /\ rows[j]["date"] = rows[k]["date"])
            => j = k

-----------------------------------------------------------------------------
(* Properties of transform_data and feature_engineer (SpecFeatures) *)

\* The records of symbol s in ascending date order, found by counting the
\* dates at or before each record's own
History(frame, s) ==
    LET rows == RowsOf(frame, s)
        no == Seq1([j \in 1..Len(rows) |->
                Cardinality({q \in 1..Len(rows) : rows[q]["date"] <= rows[j]["date"]})])
    IN  Seq1([m \in 1..Len(rows) |-> rows[CHOOSE j \in 1..Len(rows) : no[j] = m]])

\* No close among the W observations ending at the m-th is null
WindowParsed(h, m, W) == \A q \in (m - W + 1)..m : ~IsNull(h[q]["close"])

AllParsed(h) == \A q \in 1..Len(h) : ~IsNull(h[q]["close"])

\* C6 as stated: MA50 (MA200) is non-null exactly from a symbol's 50th
\* (200th) observation in date order on, nulled closes or not.
C6_MovingAverageAsStated ==
    pc = "featured" =>
        \A s \in Syms :
            LET h == History(df, s)
            IN  \A m \in 1..Len(h) :
                    /\ ~IsNull(h[m]["MA50"]) <=> m >= MA50Window
                    /\ ~IsNull(h[m]["MA200"]) <=> m >= MA200Window

\* C6 amended: MA50 (MA200) is non-null exactly at the records that are at
\* least the 50th (200th) observation of their symbol in date order and
\* whose window of 50 (200) observations holds no null close; it is then
\* the mean of the closes of that window.
C6_MovingAverage ==
    pc = "featured" =>
        \A s \in Syms :
            LET h == History(df, s)
            IN  \A m \in 1..Len(h) :
                    /\ ~IsNull(h[m]["MA50"]) <=>
                            (m >= MA50Window /\ WindowParsed(h, m, MA50Window))
                    /\ ~IsNull(h[m]["MA200"]) <=>
                            (m >= MA200Window /\ WindowParsed(h, m, MA200Window))
                    /\ ~IsNull(h[m]["MA50"]) => h[m]["MA50"][2] = MA50Window
                    /\ ~IsNull(h[m]["MA200"]) => h[m]["MA200"][2] = MA200Window

\* A symbol with a nulled close has both averages null inside the windows
\* the null falls in and non-null outside them.
C6_Witness ==
    /\ pc = "featured"
    /\ \E s \in Syms :
        LET h == History(df, s)
        IN  /\ Len(h) > MA200Window
            /\ \E q \in 1..Len(h) : IsNull(h[q]["close"])
            /\ \E m \in 1..Len(h) : m >= MA50Window /\ IsNull(h[m]["MA50"])
            /\ \E m \in 1..Len(h) : ~IsNull(h[m]["MA50"])
            /\ ~IsNull(h[Len(h)]["MA200"])

\* close[t] - close[t-1] over close[t-1], null if either close is null
Return(prev, cur) ==
    IF IsNull(prev) \/ IsNull(cur) THEN NaN ELSE <<cur[1] - prev[1], prev[1]>>

SameCell(a, b) ==
    IF IsNull(a) \/ IsNull(b) THEN IsNull(a) /\ IsNull(b) ELSE SameNum(a, b)

\* C8: a symbol's earliest record has a null daily_return and every later
\* record has (close[t] - close[t-1]) / close[t-1], taken from the close of
\* the same symbol's preceding date (null where either close is null).
C8_DailyReturn ==
    pc = "featured" =>
        \A s \in Syms :
            LET h == History(df, s)
            IN  \A m \in 1..Len(h) :
                    IF m = 1 THEN IsNull(h[m]["daily_return"])
                    ELSE SameCell(h[m]["daily_return"],
                                  Return(h[m - 1]["close"], h[m]["close"]))

\* The latest non-null close at or before the m-th observation, if any
LastParsed(h, m) ==
    LET at == {q \in 1..m : ~IsNull(h[q]["close"])}
    IN  IF at = {} THEN NaN
        ELSE h[CHOOSE q \in at : \A r \in at : r <= q]["close"]

\* What holds on every pandas: the earliest record of a symbol has a null
\* daily_return; between two parsed closes the return is the one of C8,
\* within the symbol; next to a null close it is null or the return
\* between the latest parsed closes of the symbol (the forward fill).
DailyReturnOnParsedCloses ==
    pc = "featured" =>
        \A s \in Syms :
            LET h == History(df, s)
            IN  \A m \in 1..Len(h) :
                    IF m = 1 THEN IsNull(h[m]["daily_return"])
                    ELSE IF ~IsNull(h[m]["close"]) /\ ~IsNull(h[m - 1]["close"])
                    THEN SameCell(h[m]["daily_return"],
                                  Return(h[m - 1]["close"], h[m]["close"]))
                    ELSE \/ IsNull(h[m]["daily_return"])
                         \/ SameCell(h[m]["daily_return"],
                                     Return(LastParsed(h, m - 1), LastParsed(h, m)))

RawOf(c) == CHOOSE k \in RawCols : RenameCol(k) = c

\* C9: transform_data emits one record per raw observation, in input order
\* and with the observation's symbol and date; each numeric field is the
\* number its string denotes, or null if the string denotes none.
C9_CoerciveParse ==
    pc = "transformed" =>
        LET raw == Concat(all_data)
        IN  /\ Len(df) = Len(raw)
            /\ \A k \in 1..Len(df) :
                /\ DOMAIN df[k] = NumericCols \cup {"symbol", "date"}
                /\ df[k]["symbol"] = raw[k]["symbol"]
                /\ DateKey(df[k]["date"]) = raw[k]["index"]
                /\ \A c \in NumericCols :
                    df[k][c] = IF raw[k][RawOf(c)] = BadStr THEN NaN
                               ELSE Num(ParseTable[raw[k][RawOf(c)]])

\* A row whose volume failed to parse is kept, its prices parsed.
C9_Witness ==
    /\ pc = "transformed"
    /\ Len(df) = 2 * ShortObs
    /\ \E k \in 1..Len(df) :
        /\ IsNull(df[k]["volume"])
        /\ ~IsNull(df[k]["close"])

\* C10: for a symbol with every close parsed, volatility is null on its
\* first 30 observations in date order and non-null from the 31st on.
C10_VolatilityWarmup ==
    pc = "featured" =>
        \A s \in Syms :
            LET h == History(df, s)
            IN  AllParsed(h) =>
                    \A m \in 1..Len(h) :
                        IsNull(h[m]["volatility"]) <=> m <= VolatilityWindow

C10_Witness ==
    /\ pc = "featured"
    /\ \E s \in Syms :
        LET h == History(df, s)
        IN  /\ AllParsed(h)
            /\ Len(h) > VolatilityWindow + 1
            /\ IsNull(h[VolatilityWindow]["volatility"])
            /\ ~IsNull(h[VolatilityWindow + 1]["volatility"])

====
